---- MODULE Spec2Model ----
(***************************************************************************)
(* Model of src/app.py, the Streamlit dashboard over a pickled table of    *)
(* association rules ("rules.pkl").                                        *)
(*                                                                         *)
(* Streamlit re-executes the whole script top to bottom on every user      *)
(* interaction (a "run").  One run is modelled as the sequence of the      *)
(* script's sections, one action per section, with pc naming the section   *)
(* about to execute.  Between runs the user moves a slider, picks an item  *)
(* in the selectbox or asks for a rerun, and the file rules.pkl may be     *)
(* replaced on disk.  What survives a run is the st.cache_data cache of    *)
(* load_rules (process wide) and the widgets' state (per session).         *)
(*                                                                         *)
(* Numbers are fixed point: support and confidence in hundredths, lift in  *)
(* tenths.  The script only compares these values (>=, sort), it never     *)
(* does arithmetic on them that a claim depends on.                        *)
(***************************************************************************)
EXTENDS Integers, Sequences, FiniteSets, TLC

VARIABLES
    artifact,        \* the file rules.pkl on disk
    cache,           \* st.cache_data entry of load_rules()
    min_sup,         \* slider "Min Support"      (widget state)
    min_conf,        \* slider "Min Confidence"   (widget state)
    min_lift,        \* slider "Min Lift"         (widget state)
    widget_options,  \* options the selectbox was last rendered with
    widget_value,    \* the user's choice in that selectbox
    pc,              \* section of the script about to execute
    rules_df,        \* line 40
    filtered_df,     \* lines 53-59
    selected_item,   \* line 85
    specific_rules,  \* line 89
    recs,            \* rows written by the loop of lines 95-96
    graph_data,      \* line 112
    G,               \* lines 114-116, a set of weighted directed edges
    page,            \* elements the run has rendered so far
    uncaught         \* an exception left the script (Streamlit prints it, the run ends)

vars == <<artifact, cache, min_sup, min_conf, min_lift, widget_options,
          widget_value, pc, rules_df, filtered_df, selected_item,
          specific_rules, recs, graph_data, G, page, uncaught>>

(***************************************************************************)
(* Program constants                                                       *)
(***************************************************************************)
\* head(5), line 95
K == 5
\* head(20), line 112
N == 20
\* st.sidebar.slider("Min Support", 0.01, 0.2, 0.03, 0.01), hundredths
SupMin == 1
SupMax == 20
SupDefault == 3
SupStep == 1
\* st.sidebar.slider("Min Confidence", 0.1, 1.0, 0.3, 0.05), hundredths
ConfMin == 10
ConfMax == 100
ConfDefault == 30
ConfStep == 5
\* st.sidebar.slider("Min Lift", 1.0, 10.0, 1.0, 0.1), tenths
LiftMin == 10
LiftMax == 100
LiftDefault == 10
LiftStep == 1
\* first option of the selectbox, lines 85 and 87
Placeholder == "(Select Item)"

(***************************************************************************)
(* Bounds of the model                                                     *)
(***************************************************************************)
\* a slider is moved at most this many steps away from its default
SliderReach == 1
\* longest table the session specification puts in rules.pkl
SmallRows == 5
\* longest table the ranking specification puts in rules.pkl
MaxRows == 26

(***************************************************************************)
(* Data                                                                    *)
(***************************************************************************)
Rule(a, c, s, cf, l) ==
    [antecedents |-> a, consequents |-> c, support |-> s, confidence |-> cf, lift |-> l]

\* The rows the tables are cut from.  Rows 1-3 are the scenario of the
\* specification's section 8.  Row 4 sits exactly on the default thresholds
\* and has the placeholder text as antecedent.  (A,B) occurs twice with
\* different lifts; lift 11 and confidence 55 (antecedent A) and 70
\* (antecedent B) are tied.
Fixture ==
    << Rule("A", "B", 5, 40, 12),
       Rule("A", "C", 5, 90, 20),
       Rule("D", "E", 1, 10, 9),
       Rule(Placeholder, "A", 3, 30, 10),
       Rule("B", "A", 3, 35, 11),
       Rule("A", "D", 6, 60, 25),
       Rule("B", "C", 3, 50, 14),
       Rule("A", "E", 4, 65, 13),
       Rule("B", "D", 5, 45, 15),
       Rule("A", "F", 3, 30, 16),
       Rule("B", "E", 6, 70, 17),
       Rule("A", "G", 7, 55, 18),
       Rule("B", "F", 4, 70, 19),
       Rule("A", "H", 5, 35, 21),
       Rule("B", "G", 3, 25, 22),
       Rule("D", "A", 4, 40, 23),
       Rule("D", "B", 5, 80, 24),
       Rule("A", "B", 6, 75, 26),
       Rule("B", "H", 4, 30, 27),
       Rule("D", "C", 3, 65, 28),
       Rule("D", "F", 2, 50, 29),
       Rule(Placeholder, "B", 5, 85, 30),
       Rule("B", "B", 4, 55, 31),
       Rule("A", "A", 3, 55, 11),
       Rule("D", "G", 5, 60, 32) >>

\* Python's order of the item strings ('(' sorts before the letters)
ItemOrder == <<Placeholder, "A", "B", "C", "D", "E", "F", "G", "H">>

\* A DataFrame row: the columns and the row's index label.
Row(i, r) ==
    [index |-> i, antecedents |-> r.antecedents, consequents |-> r.consequents,
     support |-> r.support, confidence |-> r.confidence, lift |-> r.lift]

\* The table of n rows (RangeIndex 0..n-1) cut from the fixture at row
\* `first`, the fixture repeated as needed.
Table(first, n) ==
    [i \in 1..n |-> Row(i - 1, Fixture[((first + i - 2) % Len(Fixture)) + 1])]

\* What can be on disk: no file, a file that does not unpickle, a pickled
\* object without the rule columns, a pickled table of rules.
Missing == [kind |-> "missing", rows |-> <<>>]
Malformed == [kind |-> "malformed", rows |-> <<>>]
NoColumns == [kind |-> "nocolumns", rows |-> <<>>]
Pickled(rows) == [kind |-> "table", rows |-> rows]

\* Values of rules_df and of the cache
Unset == [kind |-> "unset", rows |-> <<>>]
None == [kind |-> "none", rows |-> <<>>]

\* fixture rows the session specification's tables start at: the first
\* row, and the row that no slider position lets through
SmallStarts == {1, 3}

SmallArtifacts ==
    {Missing, Malformed, NoColumns}
        \cup {Pickled(Table(first, n)) : first \in SmallStarts, n \in 0..SmallRows}
BigArtifacts == {Pickled(Table(1, n)) : n \in 0..MaxRows}

Abs(x) == IF x < 0 THEN -x ELSE x

SliderPositions(lo, hi, default, step) ==
    {v \in lo..hi : (v - lo) % step = 0 /\ Abs(v - default) <= SliderReach * step}

SupPositions == SliderPositions(SupMin, SupMax, SupDefault, SupStep)
ConfPositions == SliderPositions(ConfMin, ConfMax, ConfDefault, ConfStep)
LiftPositions == SliderPositions(LiftMin, LiftMax, LiftDefault, LiftStep)

(***************************************************************************)
(* Pure helpers                                                            *)
(***************************************************************************)
Range(s) == {s[i] : i \in DOMAIN s}

Max(S) == CHOOSE x \in S : \A y \in S : y <= x

\* df.head(n)
Head_(df, n) == SubSeq(df, 1, IF n < Len(df) THEN n ELSE Len(df))

\* Variant of the mask with an exclusive bound on support; C1 must tell it
\* from the mask of the script.
PassesExclusive(r, s, c, l) == r.support > s /\ r.confidence >= c /\ r.lift >= l

\* the row mask of lines 54-56
Passes(r, s, c, l) == r.support >= s /\ r.confidence >= c /\ r.lift >= l

\* rules_df[mask], lines 53-57: boolean indexing keeps the rows whose mask
\* is True, in the frame's order
BoolIndex(df, s, c, l) == SelectSeq(df, LAMBDA r : Passes(r, s, c, l))

\* df[df['antecedents'] == item], line 89
WithAntecedent(df, item) == SelectSeq(df, LAMBDA r : r.antecedents = item)

RECURSIVE Perms(_)
Perms(S) ==
    IF S = {} THEN {<<>>}
    ELSE UNION {{<<x>> \o p : p \in Perms(S \ {x})} : x \in S}

\* df.sort_values(by=col, ascending=False), lines 89 and 112.  No kind= is
\* passed, so pandas sorts with its default kind, quicksort, which is not
\* stable: the rows come out in descending order of the column, and rows
\* with equal values in an order that depends on the numpy build.  The
\* operator is the set of frames the call can return.
RECURSIVE SortedOrders(_, _)
SortedOrders(S, col) ==
    IF S = {} THEN {<<>>}
    ELSE LET m == Max({r[col] : r \in S})
             top == {r \in S : r[col] = m}
         IN  {p \o q : p \in Perms(top), q \in SortedOrders(S \ top, col)}

Reverse(s) == [i \in 1..Len(s) |-> s[Len(s) + 1 - i]]

\* Variant sorting in ascending order (ascending=False left out); C2 must
\* tell it from the call of the script.
sort_values_ascending(df, col) == {Reverse(s) : s \in SortedOrders(Range(df), col)}

sort_values(df, col) == SortedOrders(Range(df), col)

\* sorted(list(set(df['antecedents'].unique()))), line 84
all_items(df) == SelectSeq(ItemOrder, LAMBDA x : \E i \in DOMAIN df : df[i].antecedents = x)

\* Variant that leaves an existing edge as it is (first write wins); C3
\* must tell it from add_edge.
add_edge_keep_first(g, u, v, w) ==
    IF \E e \in g : e.u = u /\ e.v = v THEN g
    ELSE g \cup {[u |-> u, v |-> v, weight |-> w]}

\* G.add_edge(u, v, weight=w), line 116: a DiGraph holds one edge per
\* ordered pair; adding an existing edge updates its attributes.
add_edge(g, u, v, w) ==
    {e \in g : ~(e.u = u /\ e.v = v)} \cup {[u |-> u, v |-> v, weight |-> w]}

\* the loop of lines 115-116 from row i on
RECURSIVE AddRows(_, _, _)
AddRows(g, df, i) ==
    IF i > Len(df) THEN g
    ELSE AddRows(add_edge(g, df[i].antecedents, df[i].consequents, df[i].lift), df, i + 1)

(***************************************************************************)
(* The script, one action per section                                      *)
(***************************************************************************)
\* A run that stops before line 85 renders no selectbox; Streamlit drops
\* the state of widgets a run did not render.
DropSelectbox == widget_options' = <<>> /\ widget_value' = Placeholder

\* pd.read_pickle("rules.pkl") inside load_rules, lines 34-38: the value
\* returned, for a file that can be read
ReadPickle(file) == IF file.kind = "missing" THEN None ELSE file

\* rules_df = load_rules(), lines 32-40.  st.cache_data keys the entry on
\* the function and its arguments (none here): once a call has returned,
\* every later call returns the stored value without running the body.  An
\* exception is not stored; only FileNotFoundError is caught.
LoadRules ==
    /\ pc = "load"
    /\ IF cache # Unset
       THEN /\ rules_df' = cache
            /\ pc' = "filter"
            /\ UNCHANGED <<cache, uncaught, widget_options, widget_value>>
       ELSE IF artifact.kind = "malformed"
       THEN /\ uncaught' = TRUE
            /\ pc' = "done"
            /\ DropSelectbox
            /\ UNCHANGED <<cache, rules_df>>
       ELSE /\ rules_df' = ReadPickle(artifact)
            /\ cache' = ReadPickle(artifact)
            /\ pc' = "filter"
            /\ UNCHANGED <<uncaught, widget_options, widget_value>>
    /\ UNCHANGED <<artifact, min_sup, min_conf, min_lift, filtered_df,
                   selected_item, specific_rules, recs, graph_data, G, page>>

\* Sidebar, lines 43-59.  The sliders are rendered before the frame is
\* indexed; indexing an object without the columns raises KeyError, which
\* nothing catches.
SidebarFilter ==
    /\ pc = "filter"
    /\ IF rules_df = None
       THEN /\ filtered_df' = <<>>
            /\ pc' = "halt"
            /\ UNCHANGED <<page, uncaught, widget_options, widget_value>>
       ELSE IF rules_df.kind = "nocolumns"
       THEN /\ page' = page \cup {"sliders"}
            /\ uncaught' = TRUE
            /\ pc' = "done"
            /\ DropSelectbox
            /\ UNCHANGED filtered_df
       ELSE /\ page' = page \cup {"sliders"}
            /\ filtered_df' = BoolIndex(rules_df.rows, min_sup, min_conf, min_lift)
            /\ pc' = "halt"
            /\ UNCHANGED <<uncaught, widget_options, widget_value>>
    /\ UNCHANGED <<artifact, cache, min_sup, min_conf, min_lift, rules_df,
                   selected_item, specific_rules, recs, graph_data, G>>

\* Variant without the check of lines 69-71; C5 must tell it from
\* HaltChecks.
HaltChecksWithoutEmptyStop ==
    /\ pc = "halt"
    /\ IF rules_df = None
       THEN /\ page' = page \cup {"not_found_error"}
            /\ pc' = "done"
            /\ DropSelectbox
       ELSE /\ pc' = "metrics"
            /\ UNCHANGED <<page, widget_options, widget_value>>
    /\ UNCHANGED <<artifact, cache, min_sup, min_conf, min_lift, rules_df,
                   filtered_df, selected_item, specific_rules, recs,
                   graph_data, G, uncaught>>

\* Variant that takes the branch of lines 65-67 for an empty filtered frame
\* as well (the test of line 65 made on filtered_df.empty); C9 must tell it
\* from HaltChecks.
HaltChecksErrorOnEmpty ==
    /\ pc = "halt"
    /\ IF rules_df = None \/ filtered_df = <<>>
       THEN /\ page' = page \cup {"not_found_error"}
            /\ pc' = "done"
            /\ DropSelectbox
       ELSE /\ pc' = "metrics"
            /\ UNCHANGED <<page, widget_options, widget_value>>
    /\ UNCHANGED <<artifact, cache, min_sup, min_conf, min_lift, rules_df,
                   filtered_df, selected_item, specific_rules, recs,
                   graph_data, G, uncaught>>

\* Lines 65-71: st.error + st.stop() without a table, st.warning +
\* st.stop() with an empty filtered frame.
HaltChecks ==
    /\ pc = "halt"
    /\ IF rules_df = None
       THEN /\ page' = page \cup {"not_found_error"}
            /\ pc' = "done"
            /\ DropSelectbox
       ELSE IF filtered_df = <<>>
       THEN /\ page' = page \cup {"no_rules_warning"}
            /\ pc' = "done"
            /\ DropSelectbox
       ELSE /\ pc' = "metrics"
            /\ UNCHANGED <<page, widget_options, widget_value>>
    /\ UNCHANGED <<artifact, cache, min_sup, min_conf, min_lift, rules_df,
                   filtered_df, selected_item, specific_rules, recs,
                   graph_data, G, uncaught>>

\* Lines 73-80
MetricCards ==
    /\ pc = "metrics"
    /\ page' = page \cup {"metrics"}
    /\ pc' = "recommender"
    /\ UNCHANGED <<artifact, cache, min_sup, min_conf, min_lift,
                   widget_options, widget_value, rules_df, filtered_df,
                   selected_item, specific_rules, recs, graph_data, G, uncaught>>

\* Variant offering the antecedents of the whole store (rules_df in place
\* of filtered_df on line 84); C10 must tell it from Options.
OptionsFromStore == <<Placeholder>> \o all_items(rules_df.rows)

\* the options of the selectbox, lines 84-85
Options == <<Placeholder>> \o all_items(filtered_df)

\* st.selectbox(label, options), line 85: the widget's identity includes
\* its options, so the user's choice is returned only while the options
\* are those the choice was made from; otherwise the widget is new and
\* returns its first option.
Selectbox == IF Options = widget_options THEN widget_value ELSE Placeholder

\* Lines 83-100
ProductRecommender ==
    /\ pc = "recommender"
    /\ widget_options' = Options
    /\ widget_value' = Selectbox
    /\ selected_item' = Selectbox
    /\ IF Selectbox # Placeholder
       THEN /\ specific_rules' \in sort_values(WithAntecedent(filtered_df, Selectbox), "confidence")
            /\ IF specific_rules' # <<>>
               THEN /\ recs' = Head_(specific_rules', K)
                    /\ page' = page \cup {"selectbox", "success"}
               ELSE /\ recs' = <<>>
                    /\ page' = page \cup {"selectbox", "no_associations_info"}
       ELSE /\ page' = page \cup {"selectbox"}
            /\ UNCHANGED <<specific_rules, recs>>
    /\ pc' = "graph"
    /\ UNCHANGED <<artifact, cache, min_sup, min_conf, min_lift, rules_df,
                   filtered_df, graph_data, G, uncaught>>

\* Lines 105-133
NetworkGraph ==
    /\ pc = "graph"
    /\ \E sorted \in sort_values(filtered_df, "lift") :
          /\ graph_data' = Head_(sorted, N)
          /\ G' = AddRows({}, Head_(sorted, N), 1)
    /\ page' = page \cup {"graph"}
    /\ pc' = "table"
    /\ UNCHANGED <<artifact, cache, min_sup, min_conf, min_lift,
                   widget_options, widget_value, rules_df, filtered_df,
                   selected_item, specific_rules, recs, uncaught>>

\* Lines 135-141
DetailedData ==
    /\ pc = "table"
    /\ page' = page \cup {"table"}
    /\ pc' = "done"
    /\ UNCHANGED <<artifact, cache, min_sup, min_conf, min_lift,
                   widget_options, widget_value, rules_df, filtered_df,
                   selected_item, specific_rules, recs, graph_data, G, uncaught>>

(***************************************************************************)
(* Between runs                                                            *)
(***************************************************************************)
\* The script starts again from line 1 with nothing but the cache and the
\* widget state.
StartRun ==
    /\ pc' = "load"
    /\ rules_df' = Unset
    /\ filtered_df' = <<>>
    /\ selected_item' = Placeholder
    /\ specific_rules' = <<>>
    /\ recs' = <<>>
    /\ graph_data' = <<>>
    /\ G' = {}
    /\ page' = {}
    /\ uncaught' = FALSE

\* The user asks for a rerun (R, or reloading the page's script).
Rerun ==
    /\ pc = "done"
    /\ StartRun
    /\ UNCHANGED <<artifact, cache, min_sup, min_conf, min_lift,
                   widget_options, widget_value>>

\* The user moves one of the sliders of lines 48-50.
MoveSlider ==
    /\ pc = "done"
    /\ "sliders" \in page
    /\ \E s \in SupPositions, c \in ConfPositions, l \in LiftPositions :
          /\ <<s, c, l>> # <<min_sup, min_conf, min_lift>>
          /\ Cardinality({i \in 1..3 : <<s, c, l>>[i] # <<min_sup, min_conf, min_lift>>[i]}) = 1
          /\ min_sup' = s
          /\ min_conf' = c
          /\ min_lift' = l
    /\ StartRun
    /\ UNCHANGED <<artifact, cache, widget_options, widget_value>>

\* The user picks an option of the selectbox of line 85.
SelectItem ==
    /\ pc = "done"
    /\ "selectbox" \in page
    /\ \E x \in Range(widget_options) :
          /\ x # widget_value
          /\ widget_value' = x
    /\ StartRun
    /\ UNCHANGED <<artifact, cache, min_sup, min_conf, min_lift, widget_options>>

\* rules.pkl is created, replaced or removed by the rule generation step.
\* The script reads the file only in load_rules, so a change at any other
\* moment is a change just before the next load.
ReplaceArtifact ==
    /\ pc = "load"
    /\ artifact' \in SmallArtifacts \ {artifact}
    /\ UNCHANGED <<cache, min_sup, min_conf, min_lift, widget_options,
                   widget_value, pc, rules_df, filtered_df, selected_item,
                   specific_rules, recs, graph_data, G, page, uncaught>>

(***************************************************************************)
(* Specifications                                                          *)
(***************************************************************************)
InitSession ==
    /\ cache = Unset
    /\ min_sup = SupDefault
    /\ min_conf = ConfDefault
    /\ min_lift = LiftDefault
    /\ widget_options = <<>>
    /\ widget_value = Placeholder
    /\ pc = "load"
    /\ rules_df = Unset
    /\ filtered_df = <<>>
    /\ selected_item = Placeholder
    /\ specific_rules = <<>>
    /\ recs = <<>>
    /\ graph_data = <<>>
    /\ G = {}
    /\ page = {}
    /\ uncaught = FALSE

\* A session of the server: first run with whatever is on disk.
Init ==
    /\ artifact \in SmallArtifacts
    /\ InitSession

Script ==
    \/ LoadRules
    \/ SidebarFilter
    \/ HaltChecks
    \/ MetricCards
    \/ ProductRecommender
    \/ NetworkGraph
    \/ DetailedData

Next ==
    \/ Script
    \/ Rerun
    \/ MoveSlider
    \/ SelectItem
    \/ ReplaceArtifact

Spec == Init /\ [][Next]_vars

\* The pipeline on long tables: rules.pkl holds a table when the server
\* starts and is not touched afterwards.
InitRanking ==
    /\ artifact \in BigArtifacts
    /\ InitSession

NextRanking ==
    \/ Script
    \/ MoveSlider
    \/ SelectItem

SpecRanking == InitRanking /\ [][NextRanking]_vars

(***************************************************************************)
(* Properties                                                              *)
(***************************************************************************)
\* elements rendered after the two st.stop() checks of lines 65-71
Downstream == {"metrics", "selectbox", "success", "no_associations_info", "graph", "table"}

\* the run has executed the filter of lines 46-59 on a table
Filtered == pc \notin {"load", "filter"} /\ rules_df.kind = "table"

\* the run has executed the recommender section, lines 83-100
Recommended == "selectbox" \in page

\* the run has executed the graph logic, lines 110-116
GraphBuilt == "graph" \in page

\* position of a row of the store
StorePos(r) == CHOOSE p \in DOMAIN rules_df.rows : rules_df.rows[p] = r

SameColumns(r, q) ==
    /\ r.antecedents = q.antecedents
    /\ r.consequents = q.consequents
    /\ r.support = q.support
    /\ r.confidence = q.confidence
    /\ r.lift = q.lift

\* C1: the Filtered View is exactly the rows of the store with
\* support >= min_support, confidence >= min_confidence and lift >= min_lift:
\* every kept row is a store row within all three bounds, every store row
\* that was dropped is below at least one bound, and the kept rows stand in
\* store order, each once (so equal rows are all kept).
C1_FilterExact ==
    Filtered =>
        /\ \A i \in DOMAIN filtered_df :
              /\ filtered_df[i] \in Range(rules_df.rows)
              /\ filtered_df[i].support >= min_sup
              /\ filtered_df[i].confidence >= min_conf
              /\ filtered_df[i].lift >= min_lift
        /\ \A j \in DOMAIN rules_df.rows :
              rules_df.rows[j] \notin Range(filtered_df) =>
                 \/ rules_df.rows[j].support < min_sup
                 \/ rules_df.rows[j].confidence < min_conf
                 \/ rules_df.rows[j].lift < min_lift
        /\ \A i, j \in DOMAIN filtered_df :
              i < j => StorePos(filtered_df[i]) < StorePos(filtered_df[j])

\* a run that kept some rows and dropped others, kept a row lying exactly
\* on all three thresholds, and kept two rows equal in every column
C1_Witness ==
    /\ pc = "done"
    /\ Filtered
    /\ 0 < Len(filtered_df)
    /\ Len(filtered_df) < Len(rules_df.rows)
    /\ \E i \in DOMAIN filtered_df :
          /\ filtered_df[i].support = min_sup
          /\ filtered_df[i].confidence = min_conf
          /\ filtered_df[i].lift = min_lift
    /\ \E i, j \in DOMAIN filtered_df : i < j /\ SameColumns(filtered_df[i], filtered_df[j])

\* C2: the rows displayed by the recommender are at most K, are distinct
\* rows of the Filtered View whose antecedent is the selected item, have
\* non-increasing confidence, and no matching row left out has a
\* confidence above that of a displayed row.
C2_TopKByConfidence ==
    (Recommended /\ selected_item # Placeholder) =>
        /\ Len(recs) <= K
        /\ \A i \in DOMAIN recs :
              /\ recs[i] \in Range(filtered_df)
              /\ recs[i].antecedents = selected_item
        /\ \A i, j \in DOMAIN recs :
              i < j => recs[i] # recs[j] /\ recs[i].confidence >= recs[j].confidence
        /\ \A m \in Range(filtered_df) :
              (m.antecedents = selected_item /\ m \notin Range(recs)) =>
                 \A i \in DOMAIN recs : m.confidence <= recs[i].confidence

\* K rows displayed with differing confidences while a matching row was cut
C2_Witness ==
    /\ pc = "done"
    /\ Recommended
    /\ selected_item # Placeholder
    /\ Len(recs) = K
    /\ recs[1].confidence > recs[K].confidence
    /\ \E m \in Range(filtered_df) : m.antecedents = selected_item /\ m \notin Range(recs)

\* rows of graph_data with the edge's endpoints
RowsOfEdge(e) ==
    {i \in DOMAIN graph_data :
        graph_data[i].antecedents = e.u /\ graph_data[i].consequents = e.v}

\* C3: the graph is built from the N rows of the Filtered View with the
\* greatest lift, iterated in descending lift; it has at most N edges, one
\* per (antecedent, consequent) pair among those rows and no other, and an
\* edge's weight is the lift of the last of its rows in that iteration.
C3_GraphFromTopN ==
    GraphBuilt =>
        /\ Cardinality(G) <= N
        /\ Len(graph_data) <= N
        /\ Len(graph_data) = Len(filtered_df) \/ Len(graph_data) = N
        /\ \A i \in DOMAIN graph_data : graph_data[i] \in Range(filtered_df)
        /\ \A i, j \in DOMAIN graph_data :
              i < j => graph_data[i] # graph_data[j] /\ graph_data[i].lift >= graph_data[j].lift
        /\ \A m \in Range(filtered_df) :
              m \notin Range(graph_data) =>
                 \A i \in DOMAIN graph_data : m.lift <= graph_data[i].lift
        /\ \A e \in G :
              /\ RowsOfEdge(e) # {}
              /\ e.weight = graph_data[Max(RowsOfEdge(e))].lift
        /\ \A e, f \in G : (e.u = f.u /\ e.v = f.v) => e = f
        /\ \A i \in DOMAIN graph_data :
              \E e \in G : e.u = graph_data[i].antecedents /\ e.v = graph_data[i].consequents

\* more than N rows in the view, and among the top N two rows of one pair
\* with different lifts
C3_Witness ==
    /\ GraphBuilt
    /\ Len(filtered_df) > N
    /\ \E e \in G : \E i, j \in RowsOfEdge(e) : graph_data[i].lift # graph_data[j].lift

\* C4: with rules.pkl missing, the loader returns the absent value without
\* raising, the remediation message is shown, and no stage after the halt
\* checks is executed in that run.
C4_MissingArtifactHalts ==
    (pc # "load" /\ artifact = Missing) =>
        /\ ~uncaught
        /\ rules_df = None
        /\ page \cap Downstream = {}
        /\ (pc = "done" => "not_found_error" \in page)

\* C5: with a table loaded and no row passing the filter, the run shows the
\* "no rules" warning and stops; metrics, recommender, graph and table are
\* reached only with at least one row in the Filtered View.
C5_EmptyViewStops ==
    /\ (pc \in {"metrics", "recommender", "graph", "table"} \/ page \cap Downstream # {})
          => Len(filtered_df) >= 1
    /\ (Filtered /\ filtered_df = <<>>) =>
          /\ pc \in {"halt", "done"}
          /\ page \cap Downstream = {}
          /\ (pc = "done" => "no_rules_warning" \in page)

\* a table with rows, none of which passes, and the warning on the page
C5_Witness ==
    /\ pc = "done"
    /\ Filtered
    /\ Len(rules_df.rows) > 0
    /\ filtered_df = <<>>
    /\ page = {"sliders", "no_rules_warning"}

\* C6: the value the loader hands to a run is what rules.pkl holds at that
\* run (the table, or the absent value if there is no file), whatever
\* earlier runs loaded.
C6_LoadReflectsArtifact ==
    (pc # "load" /\ artifact.kind # "malformed") => rules_df = ReadPickle(artifact)

StableTies(df, col) ==
    \A i, j \in DOMAIN df :
        (i < j /\ df[i][col] = df[j][col]) => df[i].index < df[j].index

\* C7: both rankings are stable: rows of equal confidence in the lookup,
\* and rows of equal lift in the graph's rows, keep the relative order they
\* have in the Filtered View.
C7_StableTieBreak ==
    /\ StableTies(specific_rules, "confidence")
    /\ StableTies(graph_data, "lift")

\* C8: with rules.pkl present but malformed, the failure is turned into a
\* message by the caller: no exception leaves the script, the run ends with
\* that message, and no stage after the halt checks is executed.
C8_MalformedHandled ==
    (pc # "load" /\ artifact.kind \in {"malformed", "nocolumns"}) =>
        /\ ~uncaught
        /\ page \cap Downstream = {}
        /\ (pc = "done" => "format_error" \in page)

\* C9 as stated: with an empty table in rules.pkl the loader reports
\* absence and the run halts with the remediation message.
C9_EmptyStoreReportedAbsent ==
    (pc = "done" /\ artifact = Pickled(<<>>)) =>
        /\ filtered_df = <<>>
        /\ rules_df = None
        /\ "not_found_error" \in page

\* C9 amended: when the loader returns a table with zero rows, the Filtered
\* View is empty, the loader's value is that table and not the absent
\* value, and the run halts at the checks with the "no rules" warning; the
\* remediation message is not shown and nothing after the checks is rendered.
C9_EmptyStoreWarns ==
    (Filtered /\ rules_df.rows = <<>>) =>
        /\ filtered_df = <<>>
        /\ rules_df # None
        /\ pc \in {"halt", "done"}
        /\ "not_found_error" \notin page
        /\ (pc = "done" => page = {"sliders", "no_rules_warning"})

\* a finished run on a table with zero rows
C9_Witness ==
    /\ pc = "done"
    /\ rules_df = Pickled(<<>>)
    /\ "no_rules_warning" \in page

\* C10: an item other than the placeholder returned by the selectbox is the
\* antecedent of a row of the current Filtered View, so recommendations are
\* shown and the "no associations" notice never is; with the placeholder
\* text returned, also when it is an antecedent in the view, nothing is
\* recommended, so no displayed row has the placeholder as antecedent.
C10_SelectionHasRules ==
    /\ "no_associations_info" \notin page
    /\ Recommended =>
          /\ selected_item # Placeholder =>
                /\ \E m \in Range(filtered_df) : m.antecedents = selected_item
                /\ recs # <<>>
                /\ "success" \in page
          /\ selected_item = Placeholder => (recs = <<>> /\ "success" \notin page)
          /\ \A i \in DOMAIN recs : recs[i].antecedents # Placeholder

\* after a slider was moved, an item is selected and recommended while the
\* view also holds a row whose antecedent is the placeholder text
C10_Witness ==
    /\ pc = "done"
    /\ Recommended
    /\ <<min_sup, min_conf, min_lift>> # <<SupDefault, ConfDefault, LiftDefault>>
    /\ selected_item # Placeholder
    /\ "success" \in page
    /\ \E m \in Range(filtered_df) : m.antecedents = Placeholder

====
